---- MODULE Spec2Model ----
(***************************************************************************)
(* Model of src/main.py: the Streamlit dashboard over the NASDAQ symbol    *)
(* directory.  Two parts:                                                  *)
(*   - load_all_tickers (lines 54-99): FTP fetch of two pipe-delimited     *)
(*     listings, normalisation into one table, behind st.cache_data with   *)
(*     a time-to-live of 3600 seconds;                                     *)
(*   - the script body (lines 132-379): the aggregations of tab1/tab2 and  *)
(*     the search/filter of tab4 over the loaded table.                    *)
(* A table cell is a record [na, v]: na = TRUE is pandas' NaN, otherwise v *)
(* is the cell's text.  A data frame is [cols, rows]: the set of column    *)
(* names and the sequence of rows, each row a function from cols to cells. *)
(***************************************************************************)
EXTENDS Integers, Sequences, FiniteSets, TLC

\* ------------------------------------------------------------------ cells

NaN == [na |-> TRUE, v |-> ""]

Str(s) == [na |-> FALSE, v |-> s]

\* pandas.read_csv's default na_values: the field texts it reads as NaN.
NaValues ==
  {"", "#N/A", "#N/A N/A", "#NA", "-1.#IND", "-1.#QNAN", "-NaN", "-nan",
   "1.#IND", "1.#QNAN", "<NA>", "N/A", "NA", "NULL", "NaN", "None", "n/a",
   "nan", "null"}

ParseField(t) == IF t \in NaValues THEN NaN ELSE Str(t)

Range(f) == {f[i] : i \in DOMAIN f}

IndexOf(seq, x) == CHOOSE i \in 1..Len(seq) : seq[i] = x

\* A failed step of load_all_tickers (an exception), as a data frame value.
Failed == [ok |-> FALSE, cols |-> {}, rows |-> <<>>]

\* pd.read_csv(r, sep="|"): `text` is the payload as a sequence of lines, each
\* a sequence of fields; line 1 is the header.  An empty payload and a data
\* line with more fields than the header are parse errors; a short line is
\* padded with NaN.
ReadCsv(text) ==
  IF text = <<>> \/ \E i \in 2..Len(text) : Len(text[i]) > Len(text[1])
  THEN Failed
  ELSE LET hdr == text[1]
       IN [ok |-> TRUE,
           cols |-> Range(hdr),
           rows |-> [i \in 1..(Len(text) - 1) |->
                       [c \in Range(hdr) |->
                          IF IndexOf(hdr, c) <= Len(text[i + 1])
                          THEN ParseField(text[i + 1][IndexOf(hdr, c)])
                          ELSE NaN]]]

\* Mutant of NotNa: the rows without a symbol are kept.
NotNaKeepsAll(df, col) ==
  IF ~df.ok \/ col \notin df.cols THEN Failed ELSE df

\* df[df[col].notna()].copy(); KeyError when the column is missing.
NotNa(df, col) ==
  IF ~df.ok \/ col \notin df.cols
  THEN Failed
  ELSE [df EXCEPT !.rows = SelectSeq(df.rows, LAMBDA r : ~r[col].na)]

\* df[col] = vals: one cell per row (a constant column repeats one cell).
Assign(df, col, vals) ==
  [df EXCEPT !.cols = df.cols \cup {col},
             !.rows = [i \in 1..Len(df.rows) |->
                         [c \in df.cols \cup {col} |->
                            IF c = col THEN vals[i] ELSE df.rows[i][c]]]]

Const(df, cell) == [i \in 1..Len(df.rows) |-> cell]

Column(df, col) == [i \in 1..Len(df.rows) |-> df.rows[i][col]]

\* df.rename(columns={old: new}, inplace=True)
Rename(df, old, new) ==
  [df EXCEPT !.cols = (df.cols \ {old}) \cup {new},
             !.rows = [i \in 1..Len(df.rows) |->
                         [c \in (df.cols \ {old}) \cup {new} |->
                            IF c = new THEN df.rows[i][old] ELSE df.rows[i][c]]]]

\* df[[c1, c2, ...]]; KeyError when a column is missing.
Select(df, cs) ==
  IF ~df.ok \/ ~(cs \subseteq df.cols)
  THEN Failed
  ELSE [df EXCEPT !.cols = cs,
                  !.rows = [i \in 1..Len(df.rows) |->
                              [c \in cs |-> df.rows[i][c]]]]

\* pd.concat([a, b], ignore_index=True): the rows of a then those of b, over
\* the union of the columns, NaN where a frame lacks the column.
Concat(a, b) ==
  IF ~a.ok \/ ~b.ok
  THEN Failed
  ELSE LET cs == a.cols \cup b.cols
           Widen(df) == [i \in 1..Len(df.rows) |->
                           [c \in cs |-> IF c \in df.cols
                                         THEN df.rows[i][c] ELSE NaN]]
       IN [ok |-> TRUE, cols |-> cs, rows |-> Widen(a) \o Widen(b)]

\* ------------------------------------------------------- load_all_tickers

\* The dict of lines 79-84 under Series.map: a code outside the dict, and a
\* NaN code, map to NaN.
ExchangeDetailMap(cell) ==
  IF cell.na THEN NaN
  ELSE CASE cell.v = "N" -> Str("NYSE")
         [] cell.v = "P" -> Str("NYSE Arca")
         [] cell.v = "A" -> Str("NYSE American (AMEX)")
         [] cell.v = "Z" -> Str("BATS/CBOE")
         [] OTHER -> NaN

\* all_tickers['ETF'].fillna('N')
FillNaN(cell) == IF cell.na THEN Str("N") ELSE cell

\* The dict of line 95 under Series.map: a flag outside the dict maps to NaN.
TypeMap(cell) ==
  IF cell.na THEN NaN
  ELSE CASE cell.v = "Y" -> Str("ETF")
         [] cell.v = "N" -> Str("Stock")
         [] OTHER -> NaN

\* Lines 65-67: parse the first listing, keep the rows with a symbol, tag them.
NasdaqFrame(payload) ==
  LET df == NotNa(ReadCsv(payload), "Symbol")
  IN IF df.ok THEN Assign(df, "Exchange", Const(df, Str("NASDAQ"))) ELSE Failed

\* Lines 73-75: parse the second listing, keep the rows with a symbol, rename.
OtherFrame(payload) ==
  LET df == NotNa(ReadCsv(payload), "ACT Symbol")
  IN IF df.ok THEN Rename(df, "ACT Symbol", "Symbol") ELSE Failed

\* Line 78.
NasdaqDetail(nasdaq_df) ==
  Assign(nasdaq_df, "Exchange_Detail", Const(nasdaq_df, Str("NASDAQ")))

\* Lines 79-84; KeyError when the second listing has no Exchange column.
OtherDetail(nyse_df) ==
  IF "Exchange" \notin nyse_df.cols
  THEN Failed
  ELSE Assign(nyse_df, "Exchange_Detail",
              [i \in 1..Len(nyse_df.rows) |->
                 ExchangeDetailMap(nyse_df.rows[i]["Exchange"])])

SecondsPerDay == 86400

\* datetime.now().strftime('%Y-%m-%d'): the calendar day of the clock.
RetrievedDate(clock) == Str(ToString(clock \div SecondsPerDay))

NasdaqColumns ==
  {"Symbol", "Security Name", "ETF", "Exchange", "Exchange_Detail",
   "Market Category"}

OtherColumns ==
  {"Symbol", "Security Name", "ETF", "Exchange", "Exchange_Detail"}

\* Lines 89-97: concatenate, fill the fund flag, derive Type, stamp.
Combine(nasdaq_df, nyse_df, clock) ==
  LET cat == Concat(Select(nasdaq_df, NasdaqColumns),
                    Select(nyse_df, OtherColumns))
  IN IF ~cat.ok THEN Failed
     ELSE LET filled == Assign(cat, "ETF",
                          [i \in 1..Len(cat.rows) |-> FillNaN(cat.rows[i]["ETF"])])
              typed == Assign(filled, "Type",
                          [i \in 1..Len(cat.rows) |-> TypeMap(filled.rows[i]["ETF"])])
              sourced == Assign(typed, "Data_Source",
                          Const(typed, Str("bquantfinance.com")))
          IN Assign(sourced, "Retrieved_Date",
                    Const(sourced, RetrievedDate(clock)))

\* The body of load_all_tickers on payloads a and b at `clock`, with no
\* network failure: the table, or Failed when a parse step raises.
LoadAllTickers(a, b, clock) ==
  LET nasdaq_df == NasdaqFrame(a)
      nyse_df == OtherFrame(b)
  IN IF ~nasdaq_df.ok \/ ~nyse_df.ok THEN Failed
     ELSE IF ~OtherDetail(nyse_df).ok THEN Failed
     ELSE Combine(NasdaqDetail(nasdaq_df), OtherDetail(nyse_df), clock)

\* ------------------------------------------------------------- the inputs

NasdaqHeader == <<"Symbol", "Security Name", "Market Category", "ETF">>

OtherHeader == <<"ACT Symbol", "Security Name", "Exchange", "ETF">>

\* The listings the remote server may hold while the cache protocol runs: a
\* well-formed pair, and one malformed payload for each line that can raise.
GoodNasdaq == <<NasdaqHeader, <<"AAA", "Alpha Co", "Q", "N">>>>

GoodOther == <<OtherHeader, <<"BBB", "Beta Co", "N", "Y">>>>

Remotes ==
  { [nasdaq |-> GoodNasdaq, other |-> GoodOther],
    \* line 65: a data line longer than the header
    [nasdaq |-> <<NasdaqHeader, <<"AAA", "Alpha Co", "Q", "N">>,
                                <<"AAB", "Alpha", "B", "Q", "N">>>>,
     other |-> GoodOther],
    \* line 74: no ACT Symbol column
    [nasdaq |-> GoodNasdaq,
     other |-> <<<<"Symbol", "Security Name", "Exchange", "ETF">>,
                 <<"BBB", "Beta Co", "N", "Y">>>>],
    \* line 79: no Exchange column
    [nasdaq |-> GoodNasdaq,
     other |-> <<<<"ACT Symbol", "Security Name", "ETF">>,
                 <<"BBB", "Beta Co", "Y">>>>],
    \* line 90: no Market Category column
    [nasdaq |-> <<<<"Symbol", "Security Name", "ETF">>,
                  <<"AAA", "Alpha Co", "N">>>>,
     other |-> GoodOther] }

\* ------------------------------------------------------------------ state

NumSessions == 2

Sessions == 1..NumSessions

\* @st.cache_data(ttl=3600)
TTL == 3600

StartTime == 82800

TickStep == 1800

MaxTicks == 4

VARIABLES
  now,      \* the wall clock, in seconds
  remote,   \* the two listings on the FTP server
  cache,    \* st.cache_data's entry for load_all_tickers()
  lock,     \* the session computing the cached value, 0 when none
  pc,       \* each session's script run: where it is
  local,    \* each invocation's locals: r, nasdaq_df, nyse_df
  ftp,      \* each invocation's FTP session: "none", "open" or "closed"
  result,   \* what line 134 gave each script run
  waited,   \* ghost: the sessions that asked for the lock during a rebuild
  view      \* the script body below line 134

vars == <<now, remote, cache, lock, pc, local, ftp, result, waited, view>>

NoEntry == [present |-> FALSE, value |-> Failed, written |-> 0]

NoLocal == [r |-> <<>>, nasdaq_df |-> Failed, nyse_df |-> Failed]

NoResult == [kind |-> "none", value |-> Failed]

NoView ==
  [stage |-> "start", all_tickers |-> Failed, nasdaq_count |-> 0,
   exchange_counts |-> <<>>,
   overall_type |-> <<>>, search |-> "", exchange_filter |-> {},
   type_filter |-> {}, filtered |-> Failed]

BodyPcs ==
  {"connect", "login", "retr_nasdaq", "parse_nasdaq", "retr_other",
   "parse_other", "standardize", "combine"}

\* Mutant of CacheHit: the time-to-live is ignored.
CacheHitNoExpiry(c, clock) == c.present

\* The in-memory cache's read: an entry is served while it is younger than
\* the time-to-live, counted from the moment it was written.
CacheHit(c, clock) == c.present /\ clock < c.written + TTL

Init ==
  /\ now = StartTime
  /\ remote \in Remotes
  /\ cache = NoEntry
  /\ lock = 0
  /\ pc = [s \in Sessions |-> "idle"]
  /\ local = [s \in Sessions |-> NoLocal]
  /\ ftp = [s \in Sessions |-> "none"]
  /\ result = [s \in Sessions |-> NoResult]
  /\ waited = {}
  /\ view = NoView

\* ------------------------------------------------- the cache and the fetch

\* The wall clock advances.
Tick ==
  /\ now < StartTime + MaxTicks * TickStep
  /\ now' = now + TickStep
  /\ UNCHANGED <<remote, cache, lock, pc, local, ftp, result, waited, view>>

\* Line 134 under the decorator of line 54: a script run calls
\* load_all_tickers(); a cached value younger than the time-to-live is
\* returned at once, otherwise the caller goes for the compute lock.
Request(s) ==
  /\ pc[s] = "idle"
  /\ IF CacheHit(cache, now)
     THEN /\ result' = [result EXCEPT ![s] = [kind |-> "table", value |-> cache.value]]
          /\ pc' = [pc EXCEPT ![s] = "done"]
          /\ UNCHANGED waited
     ELSE /\ pc' = [pc EXCEPT ![s] = "lock"]
          /\ waited' = IF lock # 0 THEN waited \cup {s} ELSE waited
          /\ UNCHANGED result
  /\ UNCHANGED <<now, remote, cache, lock, local, ftp, view>>

\* Mutant of Acquire: the body starts without waiting for the lock.
AcquireNoLock(s) ==
  /\ pc[s] = "lock"
  /\ IF CacheHit(cache, now)
     THEN /\ result' = [result EXCEPT ![s] = [kind |-> "table", value |-> cache.value]]
          /\ pc' = [pc EXCEPT ![s] = "done"]
          /\ UNCHANGED <<lock, local, ftp, waited>>
     ELSE /\ lock' = s
          /\ pc' = [pc EXCEPT ![s] = "connect"]
          /\ local' = [local EXCEPT ![s] = NoLocal]
          /\ ftp' = [ftp EXCEPT ![s] = "none"]
          /\ waited' = waited \cup {t \in Sessions \ {s} : pc[t] = "lock"}
          /\ UNCHANGED result
  /\ UNCHANGED <<now, remote, cache, view>>

\* The caller takes the compute lock and reads the cache again: a value
\* written meanwhile is returned, otherwise the body starts to run.
Acquire(s) ==
  /\ pc[s] = "lock"
  /\ lock = 0
  /\ IF CacheHit(cache, now)
     THEN /\ result' = [result EXCEPT ![s] = [kind |-> "table", value |-> cache.value]]
          /\ pc' = [pc EXCEPT ![s] = "done"]
          /\ UNCHANGED <<lock, local, ftp, waited>>
     ELSE /\ lock' = s
          /\ pc' = [pc EXCEPT ![s] = "connect"]
          /\ local' = [local EXCEPT ![s] = NoLocal]
          /\ ftp' = [ftp EXCEPT ![s] = "none"]
          /\ waited' = waited \cup {t \in Sessions \ {s} : pc[t] = "lock"}
          /\ UNCHANGED result
  /\ UNCHANGED <<now, remote, cache, view>>

\* Mutant of Raise: the failure is stored in the cache.
RaiseCached(s) ==
  /\ lock' = 0
  /\ pc' = [pc EXCEPT ![s] = "done"]
  /\ result' = [result EXCEPT ![s] = [kind |-> "error", value |-> Failed]]
  /\ local' = [local EXCEPT ![s] = NoLocal]
  /\ cache' = [present |-> TRUE, value |-> Failed, written |-> now]
  /\ UNCHANGED <<now, remote, waited, view>>

\* An exception leaves the body: the lock is released, nothing is written to
\* the cache, and the script run ends at line 134 with the error.  The FTP
\* session stays as it was.
Raise(s) ==
  /\ lock' = 0
  /\ pc' = [pc EXCEPT ![s] = "done"]
  /\ result' = [result EXCEPT ![s] = [kind |-> "error", value |-> Failed]]
  /\ local' = [local EXCEPT ![s] = NoLocal]
  /\ UNCHANGED <<now, remote, cache, waited, view>>

\* Line 57: ftplib.FTP(host) connects, or raises.
Connect(s) ==
  /\ pc[s] = "connect"
  /\ \/ /\ ftp' = [ftp EXCEPT ![s] = "open"]
        /\ pc' = [pc EXCEPT ![s] = "login"]
        /\ UNCHANGED <<now, remote, cache, lock, local, result, waited, view>>
     \/ /\ Raise(s)
        /\ UNCHANGED ftp

\* Lines 58-59: login() and cwd(), or either raises.
Login(s) ==
  /\ pc[s] = "login"
  /\ \/ /\ pc' = [pc EXCEPT ![s] = "retr_nasdaq"]
        /\ UNCHANGED <<now, remote, cache, lock, local, ftp, result, waited, view>>
     \/ /\ Raise(s)
        /\ UNCHANGED ftp

\* Lines 62-64: retrieve nasdaqlisted.txt into r, or the transfer raises.
RetrNasdaq(s) ==
  /\ pc[s] = "retr_nasdaq"
  /\ \/ /\ local' = [local EXCEPT ![s].r = remote.nasdaq]
        /\ pc' = [pc EXCEPT ![s] = "parse_nasdaq"]
        /\ UNCHANGED <<now, remote, cache, lock, ftp, result, waited, view>>
     \/ /\ Raise(s)
        /\ UNCHANGED ftp

\* Lines 65-67.
ParseNasdaq(s) ==
  /\ pc[s] = "parse_nasdaq"
  /\ IF NasdaqFrame(local[s].r).ok
     THEN /\ local' = [local EXCEPT ![s].nasdaq_df = NasdaqFrame(local[s].r)]
          /\ pc' = [pc EXCEPT ![s] = "retr_other"]
          /\ UNCHANGED <<now, remote, cache, lock, ftp, result, waited, view>>
     ELSE /\ Raise(s)
          /\ UNCHANGED ftp

\* Mutant of RetrOther: a failed transfer is swallowed and the run goes on
\* with an empty second listing.
RetrOtherPartial(s) ==
  /\ pc[s] = "retr_other"
  /\ \/ /\ local' = [local EXCEPT ![s].r = remote.other]
        /\ pc' = [pc EXCEPT ![s] = "parse_other"]
        /\ UNCHANGED <<now, remote, cache, lock, ftp, result, waited, view>>
     \/ /\ local' = [local EXCEPT ![s].r = <<OtherHeader>>]
        /\ pc' = [pc EXCEPT ![s] = "parse_other"]
        /\ UNCHANGED <<now, remote, cache, lock, ftp, result, waited, view>>

\* Lines 70-72: retrieve otherlisted.txt into r, or the transfer raises.
RetrOther(s) ==
  /\ pc[s] = "retr_other"
  /\ \/ /\ local' = [local EXCEPT ![s].r = remote.other]
        /\ pc' = [pc EXCEPT ![s] = "parse_other"]
        /\ UNCHANGED <<now, remote, cache, lock, ftp, result, waited, view>>
     \/ /\ Raise(s)
        /\ UNCHANGED ftp

\* Lines 73-75.
ParseOther(s) ==
  /\ pc[s] = "parse_other"
  /\ IF OtherFrame(local[s].r).ok
     THEN /\ local' = [local EXCEPT ![s].nyse_df = OtherFrame(local[s].r)]
          /\ pc' = [pc EXCEPT ![s] = "standardize"]
          /\ UNCHANGED <<now, remote, cache, lock, ftp, result, waited, view>>
     ELSE /\ Raise(s)
          /\ UNCHANGED ftp

\* Lines 78-86: the Exchange_Detail columns, then ftp.close().  A KeyError at
\* line 79 leaves before the close.
Standardize(s) ==
  /\ pc[s] = "standardize"
  /\ IF OtherDetail(local[s].nyse_df).ok
     THEN /\ local' = [local EXCEPT
                         ![s].nasdaq_df = NasdaqDetail(local[s].nasdaq_df),
                         ![s].nyse_df = OtherDetail(local[s].nyse_df)]
          /\ ftp' = [ftp EXCEPT ![s] = "closed"]
          /\ pc' = [pc EXCEPT ![s] = "combine"]
          /\ UNCHANGED <<now, remote, cache, lock, result, waited, view>>
     ELSE /\ Raise(s)
          /\ UNCHANGED ftp

\* What the decorator stores when the body returns `table` at `clock`.
CacheWrite(table, clock) ==
  [present |-> TRUE, value |-> table, written |-> clock]

\* Lines 89-99: build all_tickers and return; the decorator writes the value
\* to the cache, releases the lock and hands the value to line 134.
Finish(s) ==
  /\ pc[s] = "combine"
  /\ LET table == Combine(local[s].nasdaq_df, local[s].nyse_df, now)
     IN IF table.ok
        THEN /\ cache' = CacheWrite(table, now)
             /\ lock' = 0
             /\ result' = [result EXCEPT ![s] = [kind |-> "table", value |-> table]]
             /\ pc' = [pc EXCEPT ![s] = "done"]
             /\ local' = [local EXCEPT ![s] = NoLocal]
             /\ UNCHANGED <<now, remote, ftp, waited, view>>
        ELSE /\ Raise(s)
             /\ UNCHANGED ftp

\* A widget interaction reruns the script from the top.
Rerun(s) ==
  /\ pc[s] = "done"
  /\ pc' = [pc EXCEPT ![s] = "idle"]
  /\ result' = [result EXCEPT ![s] = NoResult]
  /\ waited' = waited \ {s}
  /\ UNCHANGED <<now, remote, cache, lock, local, ftp, view>>

Next ==
  \/ Tick
  \/ \E s \in Sessions :
       \/ Request(s)
       \/ Acquire(s)
       \/ Connect(s)
       \/ Login(s)
       \/ RetrNasdaq(s)
       \/ ParseNasdaq(s)
       \/ RetrOther(s)
       \/ ParseOther(s)
       \/ Standardize(s)
       \/ Finish(s)
       \/ Rerun(s)

Spec == Init /\ [][Next]_vars

\* --------------------------------------------------------- the script body

\* Series.value_counts(): the count of each value, NaN left out (dropna=True).
ValueCounts(df, col) ==
  LET present == {i \in 1..Len(df.rows) : ~df.rows[i][col].na}
  IN [v \in {df.rows[i][col].v : i \in present} |->
        Cardinality({i \in present : df.rows[i][col].v = v})]

\* exchange_counts['Count'].sum()
RECURSIVE SumOver(_, _)
SumOver(counts, keys) ==
  IF keys = {} THEN 0
  ELSE LET k == CHOOSE x \in keys : TRUE
       IN counts[k] + SumOver(counts, keys \ {k})

CountSum(counts) == SumOver(counts, DOMAIN counts)

\* groupby(['Exchange_Detail', 'Type']).size(): the groups, those with a NaN
\* key left out.
TypeDist(df) ==
  LET present == {i \in 1..Len(df.rows) :
                    ~df.rows[i]["Exchange_Detail"].na /\ ~df.rows[i]["Type"].na}
      Key(i) == <<df.rows[i]["Exchange_Detail"].v, df.rows[i]["Type"].v>>
  IN [k \in {Key(i) : i \in present} |->
        Cardinality({i \in present : Key(i) = k})]

\* Lines 280-283: pivot['Stock'] and pivot['ETF'] raise KeyError when no
\* group has that Type.
PivotRaises(type_dist) ==
  \E t \in {"Stock", "ETF"} : \A k \in DOMAIN type_dist : k[2] # t

\* all_tickers['Exchange_Detail'].unique()
Unique(df, col) == {df.rows[i][col] : i \in 1..Len(df.rows)}

\* sorted(...) over the unique values raises TypeError when it has to compare
\* NaN (a float) with a str.
SortedRaises(cells) == \E a, b \in cells : a.na /\ ~b.na

Char(t, i) == SubSeq(t, i, i)

UpperCase == "ABCDEFGHIJKLMNOPQRSTUVWXYZ"

LowerCase == "abcdefghijklmnopqrstuvwxyz"

Lower(c) ==
  IF \E i \in 1..Len(UpperCase) : Char(UpperCase, i) = c
  THEN Char(LowerCase, CHOOSE i \in 1..Len(UpperCase) : Char(UpperCase, i) = c)
  ELSE c

\* re.compile(pat) for a pattern of letters, digits, spaces, "." and "(": a
\* "(" that is never closed is an error.
ReError(pat) ==
  \E i \in 1..Len(pat) :
     /\ Char(pat, i) = "("
     /\ \A j \in (i + 1)..Len(pat) : Char(pat, j) # ")"

\* re.search(pat, text, re.IGNORECASE) for such a pattern: "." matches any
\* character but a newline, every other character matches itself.
ReSearch(pat, text) ==
  \E i \in 0..(Len(text) - Len(pat)) :
     \A j \in 1..Len(pat) :
        IF Char(pat, j) = "."
        THEN Char(text, i + j) # "\n"
        ELSE Lower(Char(pat, j)) = Lower(Char(text, i + j))

\* Series.str.contains(search, case=False, na=False): a regular expression
\* search (regex=True is the default), False on NaN.
StrContains(cell, search) == ~cell.na /\ ReSearch(search, cell.v)

\* Series.isin(values)
IsIn(cell, values) == cell \in values

\* Lines 370-379.
Filtered(all_tickers, search, exchange_filter, type_filter) ==
  LET searched ==
        IF search # ""
        THEN SelectSeq(all_tickers.rows,
               LAMBDA r : \/ StrContains(r["Symbol"], search)
                          \/ StrContains(r["Security Name"], search))
        ELSE all_tickers.rows
      by_exchange ==
        SelectSeq(searched, LAMBDA r : IsIn(r["Exchange_Detail"], exchange_filter))
  IN [all_tickers EXCEPT
        !.rows = SelectSeq(by_exchange,
                   LAMBDA r : IsIn(r["Type"], {Str(t) : t \in type_filter}))]

\* ---------------------------------------------- the script body as actions

MaxNasdaqRows == 1

MaxOtherRows == 2

\* Data lines of nasdaqlisted.txt: Symbol|Security Name|Market Category|ETF.
NasdaqLines ==
  { <<"AAA", "Alpha Co", "Q", "N">>,
    <<"NA", "Nano Labs", "S", "Y">> }

\* Data lines of otherlisted.txt: ACT Symbol|Security Name|Exchange|ETF.
OtherLines ==
  { <<"BBB", "Beta Co", "N", "N">>,
    <<"AAA", "Alpha Co", "P", "Y">>,
    <<"CCC", "Gamma Inc", "X", "N">>,
    <<"DDD", "Delta Fund", "A", "y">>,
    <<"EEE", "Epsilon", "Z", "">>,
    <<"FFF", "Foxtrot", "NASDAQ", "N">>,
    <<"", "Trailer", "N", "N">> }

SeqsUpTo(S, n) == UNION {[1..k -> S] : k \in 0..n}

Listings ==
  { [nasdaq |-> <<NasdaqHeader>> \o a, other |-> <<OtherHeader>> \o b] :
      a \in SeqsUpTo(NasdaqLines, MaxNasdaqRows),
      b \in SeqsUpTo(OtherLines, MaxOtherRows) }

\* What the user may type into the search box of line 355.
Searches == {"", "co", "A.A", "("}

ViewInit ==
  /\ now = StartTime
  /\ remote \in Listings
  /\ cache = NoEntry
  /\ lock = 0
  /\ pc = [s \in Sessions |-> "idle"]
  /\ local = [s \in Sessions |-> NoLocal]
  /\ ftp = [s \in Sessions |-> "none"]
  /\ result = [s \in Sessions |-> NoResult]
  /\ waited = {}
  /\ view = NoView

\* Lines 132-134 in one step, with no network failure: the cached value, or
\* the body's result, which is written to the cache; an exception ends the run.
LoadData ==
  /\ view.stage = "start"
  /\ LET table == IF CacheHit(cache, now) THEN cache.value
                  ELSE LoadAllTickers(remote.nasdaq, remote.other, now)
     IN IF table.ok
        THEN /\ view' = [view EXCEPT !.stage = "loaded", !.all_tickers = table]
             /\ cache' = IF CacheHit(cache, now) THEN cache
                         ELSE CacheWrite(table, now)
        ELSE /\ view' = [view EXCEPT !.stage = "crashed"]
             /\ UNCHANGED cache
  /\ UNCHANGED <<now, remote, lock, pc, local, ftp, result, waited>>

\* Mutant of NasdaqOnly: the rows are selected by Exchange_Detail.
NasdaqOnlyByDetail(all_tickers) ==
  [all_tickers EXCEPT
     !.rows = SelectSeq(all_tickers.rows,
                LAMBDA r : r["Exchange_Detail"] = Str("NASDAQ"))]

\* all_tickers[all_tickers['Exchange'] == 'NASDAQ'] (lines 207 and 487).
NasdaqOnly(all_tickers) ==
  [all_tickers EXCEPT
     !.rows = SelectSeq(all_tickers.rows, LAMBDA r : r["Exchange"] = Str("NASDAQ"))]

\* Lines 195-208: the key metrics, of which the NASDAQ count.
KeyMetrics ==
  /\ view.stage = "loaded"
  /\ view' = [view EXCEPT
                !.stage = "metrics",
                !.nasdaq_count = Len(NasdaqOnly(view.all_tickers).rows)]
  /\ UNCHANGED <<now, remote, cache, lock, pc, local, ftp, result, waited>>

\* Lines 219-221: tab1's counts by exchange.
ExchangeTab ==
  /\ view.stage = "metrics"
  /\ view' = [view EXCEPT
                !.stage = "tab1",
                !.exchange_counts = ValueCounts(view.all_tickers, "Exchange_Detail")]
  /\ UNCHANGED <<now, remote, cache, lock, pc, local, ftp, result, waited>>

\* Lines 257-283: tab2's counts by type, then the pivot, which may raise.
TypeTab ==
  /\ view.stage = "tab1"
  /\ view' = [view EXCEPT
                !.stage = IF PivotRaises(TypeDist(view.all_tickers))
                          THEN "crashed" ELSE "tab2",
                !.overall_type = ValueCounts(view.all_tickers, "Type")]
  /\ UNCHANGED <<now, remote, cache, lock, pc, local, ftp, result, waited>>

\* Lines 355-379: tab4's widgets and the filtered table.  The exchange options
\* are the sorted unique values (which may raise); the user picks the search
\* text and any subset of the offered options.
FullDataTab ==
  /\ view.stage = "tab2"
  /\ IF SortedRaises(Unique(view.all_tickers, "Exchange_Detail"))
     THEN view' = [view EXCEPT !.stage = "crashed"]
     ELSE \E search \in Searches,
             exchange_filter \in SUBSET Unique(view.all_tickers, "Exchange_Detail"),
             type_filter \in SUBSET {"Stock", "ETF"} :
            view' = IF ReError(search)
                    THEN [view EXCEPT !.stage = "crashed", !.search = search]
                    ELSE [view EXCEPT
                            !.stage = "tab4",
                            !.search = search,
                            !.exchange_filter = exchange_filter,
                            !.type_filter = type_filter,
                            !.filtered = Filtered(view.all_tickers, search,
                                                  exchange_filter, type_filter)]
  /\ UNCHANGED <<now, remote, cache, lock, pc, local, ftp, result, waited>>

\* A widget interaction, or a reload after an error, reruns the script.
ViewRerun ==
  /\ view.stage \in {"tab4", "crashed"}
  /\ view' = NoView
  /\ UNCHANGED <<now, remote, cache, lock, pc, local, ftp, result, waited>>

ViewNext ==
  \/ LoadData
  \/ KeyMetrics
  \/ ExchangeTab
  \/ TypeTab
  \/ FullDataTab
  \/ ViewRerun

ViewSpec == ViewInit /\ [][ViewNext]_vars

\* ------------------------------------------------------------- the claims

\* The rows of a parsed feed that have a symbol, as the claims speak of them.
ValidRows(payload, symbol_column) ==
  SelectSeq(ReadCsv(payload).rows, LAMBDA r : ~r[symbol_column].na)

FeedA == ValidRows(remote.nasdaq, "Symbol")

FeedB == ValidRows(remote.other, "ACT Symbol")

Loaded == view.stage \in {"loaded", "metrics", "tab1", "tab2", "tab4"}

Table == view.all_tickers.rows

VenueNames ==
  {"NASDAQ", "NYSE", "NYSE Arca", "NYSE American (AMEX)", "BATS/CBOE", "Unknown"}

\* C1 (as claimed): in every table load_all_tickers builds, each row's
\* Exchange_Detail is one of the venue names, never NaN, and a second-feed row
\* whose exchange code is outside {N, P, A, Z} carries "Unknown".
C1Original ==
  Loaded =>
    /\ \A i \in 1..Len(Table) :
          /\ ~Table[i]["Exchange_Detail"].na
          /\ Table[i]["Exchange_Detail"].v \in VenueNames
    /\ \A i \in 1..Len(FeedB) :
          FeedB[i]["Exchange"] \notin {Str("N"), Str("P"), Str("A"), Str("Z")}
            => /\ Len(Table) >= Len(FeedA) + i
               /\ Table[Len(FeedA) + i]["Exchange_Detail"] = Str("Unknown")

SourceFlag(i) ==
  IF i <= Len(FeedA) THEN FeedA[i]["ETF"] ELSE FeedB[i - Len(FeedA)]["ETF"]

\* C8 (as claimed): whatever the source fund flag (Y, N, missing, other
\* text), Type is ETF exactly when the flag was Y and Stock otherwise.
C8Original ==
  Loaded =>
    \A i \in 1..Len(Table) :
       Table[i]["Type"] = IF SourceFlag(i) = Str("Y") THEN Str("ETF") ELSE Str("Stock")

\* C9 (as claimed): the counts by Exchange_Detail sum to the row count, and so
\* do the counts by Type.
C9Original ==
  /\ view.stage \in {"tab1", "tab2", "tab4"}
       => CountSum(view.exchange_counts) = Len(Table)
  /\ view.stage \in {"tab2", "tab4"}
       => CountSum(view.overall_type) = Len(Table)

\* A case-insensitive literal substring test.
ContainsText(text, part) ==
  \E i \in 0..(Len(text) - Len(part)) :
     \A j \in 1..Len(part) : Lower(Char(part, j)) = Lower(Char(text, i + j))

\* C10 (as claimed): the filtered view is exactly the rows that contain the
\* search text as a case-insensitive literal substring of symbol or name (the
\* empty text matching all), whose Exchange_Detail is selected and whose Type
\* is selected; with no search text and every offered option selected it is
\* the whole table.
C10Original ==
  view.stage = "tab4" =>
    /\ view.filtered.rows =
         SelectSeq(Table,
           LAMBDA r :
             /\ \/ ~r["Symbol"].na /\ ContainsText(r["Symbol"].v, view.search)
                \/ ~r["Security Name"].na
                     /\ ContainsText(r["Security Name"].v, view.search)
             /\ r["Exchange_Detail"] \in view.exchange_filter
             /\ r["Type"] \in {Str(t) : t \in view.type_filter})
    /\ ( /\ view.search = ""
         /\ view.exchange_filter = Unique(view.all_tickers, "Exchange_Detail")
         /\ view.type_filter = {"Stock", "ETF"} )
         => view.filtered.rows = Table

\* The cache window of the claims: a table was built less than an hour ago.
InWindow == cache.present /\ now - cache.written < 3600

\* Session s calls load_all_tickers() in this step.
Calls(s) == pc[s] = "idle" /\ pc'[s] # "idle"

\* Session s's rebuild ends with an exception in this step.
Fails(s) == pc[s] \in BodyPcs /\ pc'[s] = "done" /\ result'[s].kind = "error"

\* The Retrieved_Date every row of a table carries is that of `clock`.
StampedAt(table, clock) ==
  \A i \in 1..Len(table.rows) :
     table.rows[i]["Retrieved_Date"] = RetrievedDate(clock)

\* C2: a call outside the window (none opened yet, or the hour elapsed) goes
\* on to the rebuild; a call inside the window touches neither the network nor
\* the cache and returns the cached table as built, stamped with the date of
\* the build that opened the window; the body is entered only outside the
\* window, and outside it a caller leaves the lock only into the body.
C2Theorem ==
  [][\A s \in Sessions :
       /\ Calls(s) =>
            IF InWindow
            THEN /\ pc'[s] = "done"
                 /\ result'[s] = [kind |-> "table", value |-> cache.value]
                 /\ StampedAt(result'[s].value, cache.written)
                 /\ cache' = cache
                 /\ ftp' = ftp
            ELSE pc'[s] = "lock" /\ result'[s].kind = "none"
       /\ (pc[s] = "lock" /\ pc'[s] = "connect") => ~InWindow
       /\ (pc[s] = "lock" /\ pc'[s] # "lock" /\ ~InWindow) => pc'[s] = "connect"]_vars

\* C2's case: a session served from the cache, without a fetch of its own,
\* after midnight passed inside the window.
C2Witness ==
  \E s \in Sessions :
     /\ pc[s] = "done"
     /\ result[s].kind = "table"
     /\ ftp[s] = "none"
     /\ InWindow
     /\ result[s].value = cache.value
     /\ RetrievedDate(now) # RetrievedDate(cache.written)

\* C3 (as claimed): when a rebuild fails while a previously built table
\* exists, that table stays in the cache and a later request is served it.
C3Original ==
  [][\A s \in Sessions :
       (Fails(s) /\ cache.present) => (cache' = cache /\ CacheHit(cache', now'))]_vars

\* C4: a failed rebuild writes nothing to the cache and frees the lock, the
\* error goes to the call that ran it, the cache never holds a failure, and a
\* call that finds no cached table goes on to a rebuild of its own.
C4Theorem ==
  /\ [](cache.present => cache.value.ok)
  /\ [][\A s \in Sessions :
          /\ Fails(s) => (cache' = cache /\ lock' = 0
                          /\ \A t \in Sessions \ {s} : result'[t] = result[t])
          /\ (Calls(s) /\ ~cache.present) => pc'[s] = "lock"
          /\ (pc[s] = "combine" /\ result'[s].kind = "table")
               => (cache'.present /\ cache'.value = result'[s].value)]_vars

\* C4's case: with no table ever built before, one session's rebuild failed
\* and another session's later call built and got a table.
C4Witness ==
  \E s, t \in Sessions :
     /\ result[s].kind = "error"
     /\ result[t].kind = "table"
     /\ ftp[t] = "closed"
     /\ cache.present
     /\ now - StartTime < TTL

\* The sessions running the body of load_all_tickers.
InFlight == {s \in Sessions : pc[s] \in BodyPcs}

\* C5 (as claimed): of the requesters that meet an empty or expired cache
\* together, exactly one rebuilds; one that waited for a rebuild in flight
\* never starts a fetch of its own.
C5Original == \A s \in InFlight : s \notin waited

\* C5 (amended): at most one rebuild runs at a time, by the session holding
\* the lock, and a requester starts a fetch of its own only when no rebuild
\* has put a table inside its window into the cache.
C5Amended ==
  /\ [](Cardinality(InFlight) <= 1 /\ \A s \in InFlight : lock = s)
  /\ [][\A s \in Sessions :
          (pc[s] = "lock" /\ pc'[s] \in BodyPcs) => (~InWindow /\ lock = 0)]_vars
  /\ [][\A s \in Sessions :
          (pc[s] = "lock" /\ InWindow /\ pc'[s] # "lock")
            => (pc'[s] = "done" /\ result'[s].value = cache.value /\ ftp' = ftp)]_vars

\* C5's case: one session is about to return its rebuild while another waits
\* for the lock.
C5Witness ==
  \E s, t \in Sessions :
     /\ pc[s] = "combine"
     /\ lock = s
     /\ pc[t] = "lock"

\* A table built from both listings of the server in one run of the body.
Complete(table) ==
  \E k \in 0..MaxTicks :
     table = LoadAllTickers(remote.nasdaq, remote.other, StartTime + k * TickStep)

\* C6: the cached table, and every table a call returned, holds the rows of
\* both listings; a run that failed returned no table and left none behind.
C6Theorem ==
  /\ cache.present => (cache.value.ok /\ Complete(cache.value))
  /\ \A s \in Sessions :
        /\ result[s].kind = "table" => (result[s].value.ok /\ Complete(result[s].value))
        /\ result[s].kind # "table" => ~result[s].value.ok

\* C6's case: the first listing is fetched and parsed, the second is not yet,
\* and no table is cached or returned.
C6Witness ==
  \E s \in Sessions :
     /\ pc[s] = "retr_other"
     /\ local[s].nasdaq_df.ok
     /\ Len(local[s].nasdaq_df.rows) > 0
     /\ ~cache.present
     /\ \A t \in Sessions : result[t].kind # "table"

\* The rows of the table that came from the second feed.
SecondFeedRows == SubSeq(Table, Len(FeedA) + 1, Len(Table))

\* C11 (as claimed): every row's Exchange is NASDAQ or OTHER, NASDAQ on the
\* first-feed rows and OTHER on the second-feed rows, so the rows selected by
\* Exchange = NASDAQ are exactly the first-feed rows.
C11Original ==
  view.stage = "metrics" =>
    /\ \A i \in 1..Len(Table) :
          Table[i]["Exchange"] =
            IF i <= Len(FeedA) THEN Str("NASDAQ") ELSE Str("OTHER")
    /\ NasdaqOnly(view.all_tickers).rows = SubSeq(Table, 1, Len(FeedA))
    /\ view.nasdaq_count = Len(FeedA)

\* C11 (amended): first-feed rows carry NASDAQ and second-feed rows carry the
\* Exchange field of their own line unchanged (NaN when it is empty), so the
\* rows selected by Exchange = NASDAQ are the first-feed rows followed by the
\* second-feed rows whose line reads NASDAQ in that field.
C11Amended ==
  view.stage = "metrics" =>
    /\ \A i \in 1..Len(FeedA) : Table[i]["Exchange"] = Str("NASDAQ")
    /\ \A i \in 1..Len(FeedB) :
          Table[Len(FeedA) + i]["Exchange"] = FeedB[i]["Exchange"]
    /\ NasdaqOnly(view.all_tickers).rows =
         SubSeq(Table, 1, Len(FeedA))
           \o SelectSeq(SecondFeedRows, LAMBDA r : r["Exchange"] = Str("NASDAQ"))
    /\ view.nasdaq_count =
         Len(FeedA)
           + Cardinality({i \in 1..Len(FeedB) : FeedB[i]["Exchange"] = Str("NASDAQ")})

\* C11's case: the metrics of a table with a first-feed row, a second-feed
\* row with a one-letter code and a second-feed row that reads NASDAQ.
C11Witness ==
  /\ view.stage = "metrics"
  /\ Len(FeedA) > 0
  /\ \E i, j \in 1..Len(FeedB) :
        /\ FeedB[i]["Exchange"] = Str("N")
        /\ FeedB[j]["Exchange"] = Str("NASDAQ")
  /\ view.nasdaq_count = Len(FeedA) + 1

\* C12: an invocation that opened a remote session has closed it by the time
\* it ends, whether it returns or raises, so that no session is open outside
\* the body of an invocation.
C12Original ==
  \A s \in Sessions : pc[s] \notin BodyPcs => ftp[s] # "open"

====
